---- MODULE Spec2Model ----
(***************************************************************************)
(* Model of the DWGPAS route-safety engine                                 *)
(* (backend/app/algorithms/dwgpas.py).                                     *)
(*                                                                         *)
(* Python floats are modelled as exact rationals [n, d]; np.exp is a table *)
(* on the three exponents the inputs produce (e ~ 19/7).  Times are whole  *)
(* hours, coordinates are <<lat, lon>> pairs on one meridian with lat in   *)
(* thousandths of a degree.  None is the record [none |-> TRUE].           *)
(***************************************************************************)
EXTENDS Integers, Sequences, FiniteSets, TLC

VARIABLES
    config,              \* self.config
    risk_factors_cache,  \* self.risk_factors_cache
    last_updated,        \* self.last_updated
    running,             \* the request the event loop is executing, 0 if none
    pc,                  \* per request: position in calculate_safest_route
    args,                \* per request: the arguments of the call
    departure_time,      \* per request: local departure_time after defaulting
    base_route,          \* per request: local base_route
    segments,            \* per request: local segments
    risk_factors,        \* per request: local risk_factors
    scored_segments,     \* per request: local scored_segments
    optimal_route,       \* per request: local optimal_route
    route_metrics,       \* per request: local route_metrics
    result,              \* per request: the value returned to the caller
    escaped,             \* per request: the exception that reached the caller
    stages,              \* per request: the stages run so far, in order
    response             \* per request: the HTTP response of /route/safest

vars == <<config, risk_factors_cache, last_updated, running, pc, args,
          departure_time, base_route, segments, risk_factors,
          scored_segments, optimal_route, route_metrics, result, escaped,
          stages, response>>

engine == <<config, risk_factors_cache, last_updated>>

locals == <<departure_time, base_route, segments, risk_factors,
            scored_segments, optimal_route, route_metrics>>

----------------------------------------------------------------------------
(* Bounds *)

MaxCoords == 3

MaxSegs == 2

Requests == {1, 2}

----------------------------------------------------------------------------
(* Python values *)

NoneVal == [none |-> TRUE]

Ok(v) == [ok |-> TRUE, val |-> v]

Raise(e) == [ok |-> FALSE, err |-> e]

Abs(x) == IF x < 0 THEN -x ELSE x

RECURSIVE GCD(_, _)
GCD(a, b) == IF b = 0 THEN a ELSE GCD(b, a % b)

Q(n, d) ==
    LET g == GCD(Abs(n), Abs(d))
        s == IF d < 0 THEN -1 ELSE 1
    IN  [n |-> s * (n \div g), d |-> s * (d \div g)]

RAdd(a, b) ==
    LET g == GCD(a.d, b.d)
    IN  Q(a.n * (b.d \div g) + b.n * (a.d \div g), a.d * (b.d \div g))

RNeg(a) == [n |-> -a.n, d |-> a.d]

RSub(a, b) == RAdd(a, RNeg(b))

RMul(a, b) ==
    LET g1 == GCD(Abs(a.n), b.d)
        g2 == GCD(Abs(b.n), a.d)
    IN  Q((a.n \div g1) * (b.n \div g2), (a.d \div g2) * (b.d \div g1))

RDiv(a, b) == RMul(a, Q(b.d, b.n))

RLt(a, b) ==
    LET g == GCD(a.d, b.d)
    IN  a.n * (b.d \div g) < b.n * (a.d \div g)

RLe(a, b) == a = b \/ RLt(a, b)

Zero == Q(0, 1)

Half == Q(1, 2)

One == Q(1, 1)

IsNumber(x) == "n" \in DOMAIN x

DateTime(h) == [hours |-> h]

IsDatetime(x) == "hours" \in DOMAIN x

DatetimeMin == DateTime(0)

IsoFormat(t) == [iso |-> t.hours]

FromIsoFormat(s) == DateTime(s.iso)

Coord(lat) == <<lat, 0>>

Malformed == <<>>

IsCoordinate(c) == Len(c) = 2

Range(s) == {s[i] : i \in DOMAIN s}

----------------------------------------------------------------------------
(* Configuration: DWGPAS.__init__ takes any dict; the default is the one   *)
(* of the source restricted to the factor names modelled.                  *)

DefaultConfig ==
    [base_weights       |-> ("crime" :> Q(3, 10) @@ "lighting" :> Q(2, 10)),
     time_decay_hours   |-> 24,
     anomaly_threshold  |-> Q(2, 1),
     max_route_segments |-> 1000]

StrictConfig ==
    [base_weights       |-> ("crime" :> Q(1, 1)),
     time_decay_hours   |-> 24,
     anomaly_threshold  |-> Q(1, 2),
     max_route_segments |-> 1]

EmptyWeightsConfig == [DefaultConfig EXCEPT !.base_weights = <<>>]

ZeroWeightsConfig ==
    [DefaultConfig EXCEPT
        !.base_weights = ("crime" :> Zero @@ "lighting" :> Zero)]

NoDecayConfig == [DefaultConfig EXCEPT !.time_decay_hours = 0]

Configs == {DefaultConfig, StrictConfig, EmptyWeightsConfig,
            ZeroWeightsConfig, NoDecayConfig}

----------------------------------------------------------------------------
(* _calculate_distance: haversine of two points of one meridian, one       *)
(* thousandth of a degree of latitude being 111 metres.                    *)

MetresPerStep == 111

CalculateDistance(c1, c2) == MetresPerStep * Abs(c1[1] - c2[1])

(* _segment_route *)

SegmentId(i) == i

SegmentRoute(route) ==
    LET coords == route.geometry.coordinates
        n == Len(coords)
    IN  IF \E i \in 1..(n - 1) :
               ~IsCoordinate(coords[i]) \/ ~IsCoordinate(coords[i + 1])
        THEN Raise("ValueError")
        ELSE Ok([i \in 1..(n - 1) |->
                    [start      |-> coords[i],
                     end        |-> coords[i + 1],
                     segment_id |-> SegmentId(i - 1),
                     length     |-> CalculateDistance(coords[i],
                                                      coords[i + 1])]])

----------------------------------------------------------------------------
(* _calculate_segment_scores and _detect_anomalies *)

Exp(x) ==
    CASE x = Q(0, 1)  -> Q(1, 1)
      [] x = Q(1, 1)  -> Q(19, 7)
      [] x = Q(-1, 1) -> Q(7, 19)

Get(d, key, default) == IF key \in DOMAIN d THEN d[key] ELSE default

\* lines 231-238: the score of one present factor, decayed
FactorScore(obs, timestamp, cfg) ==
    LET factor_score == Get(obs, "score", Half)
    IN  IF "last_updated" \in DOMAIN obs
        THEN LET lu == FromIsoFormat(obs.last_updated)
                 time_diff_hours == timestamp.hours - lu.hours
             IN  IF cfg.time_decay_hours = 0
                 THEN Raise("ZeroDivisionError")
                 ELSE LET decay == Exp(Q(-time_diff_hours,
                                         cfg.time_decay_hours))
                      IN  Ok(RAdd(Half,
                                  RMul(RSub(factor_score, Half), decay)))
        ELSE Ok(factor_score)

\* the factors of base_weights that the segment has (line 229-230)
PresentFactors(factors, cfg) == DOMAIN cfg.base_weights \cap DOMAIN factors

RECURSIVE WeightedScore(_, _, _, _)
WeightedScore(fs, factors, timestamp, cfg) ==
    IF fs = {} THEN Zero
    ELSE LET f == CHOOSE g \in fs : TRUE
         IN  RAdd(RMul(FactorScore(factors[f], timestamp, cfg).val,
                       cfg.base_weights[f]),
                  WeightedScore(fs \ {f}, factors, timestamp, cfg))

\* the configured weights taken to sum to one
TotalWeightUnit(fs, cfg) == IF fs = {} THEN Zero ELSE One

\* lines 226, 241: the weights of the present factors, summed
RECURSIVE TotalWeight(_, _)
TotalWeight(fs, cfg) ==
    IF fs = {} THEN Zero
    ELSE LET f == CHOOSE g \in fs : TRUE
         IN  RAdd(cfg.base_weights[f], TotalWeight(fs \ {f}, cfg))

\* a segment without known factors taken as maximally safe
NormalizeScoreSafe(weighted_score, total_weight) ==
    IF RLt(Zero, total_weight) THEN RDiv(weighted_score, total_weight)
    ELSE One

\* line 244
NormalizeScore(weighted_score, total_weight) ==
    IF RLt(Zero, total_weight) THEN RDiv(weighted_score, total_weight)
    ELSE Half

RECURSIVE SumQ(_)
SumQ(s) == IF s = <<>> THEN Zero ELSE RAdd(Head(s), SumQ(Tail(s)))

Mean(scores) == RDiv(SumQ(scores), Q(Len(scores), 1))

Variance(scores) ==
    LET m == Mean(scores)
    IN  RDiv(SumQ([i \in DOMAIN scores |->
                      RMul(RSub(scores[i], m), RSub(scores[i], m))]),
             Q(Len(scores), 1))

NaN == [nan |-> TRUE]

\* scipy.stats.zscore (population std); a z-score is kept as its sign and
\* its square, 0/0 is nan
ZScore(scores, i) ==
    LET m == Mean(scores)
        v == Variance(scores)
        dev == RSub(scores[i], m)
    IN  IF v = Zero THEN NaN
        ELSE [sign |-> IF dev.n < 0 THEN -1 ELSE 1,
              sq   |-> RDiv(RMul(dev, dev), v)]

\* abs(z) > threshold; every comparison with nan is false
AbsExceeds(z, threshold) ==
    IF z = NaN THEN FALSE
    ELSE IF RLt(threshold, Zero) THEN TRUE
    ELSE RLt(RMul(threshold, threshold), z.sq)

FirstIndex(seq, x) == CHOOSE i \in DOMAIN seq :
                          seq[i] = x /\ \A j \in 1..(i - 1) : seq[j] # x

\* dampening applied without the threshold test
DetectAnomaliesAlways(segment, current_score, all_segments, cfg) ==
    LET scores == [i \in DOMAIN all_segments |->
                      Get(all_segments[i], "safety_score", Half)]
    IN  IF Len(scores) > 1
        THEN Ok(RAdd(Mean(scores),
                     RMul(RSub(current_score, Mean(scores)), Half)))
        ELSE Ok(current_score)

DetectAnomalies(segment, current_score, all_segments, cfg) ==
    LET scores == [i \in DOMAIN all_segments |->
                      Get(all_segments[i], "safety_score", Half)]
    IN  IF Len(scores) > 1
           /\ AbsExceeds(ZScore(scores, FirstIndex(all_segments, segment)),
                         cfg.anomaly_threshold)
        THEN IF "anomalies" \in DOMAIN segment
             THEN Ok(RAdd(Mean(scores),
                          RMul(RSub(current_score, Mean(scores)), Half)))
             ELSE Raise("KeyError")
        ELSE Ok(current_score)

\* lines 226-244: the weighted score of one segment before anomaly detection
ComputedScore(factors, timestamp, cfg) ==
    LET fs == PresentFactors(factors, cfg)
    IN  IF \E f \in fs : ~FactorScore(factors[f], timestamp, cfg).ok
        THEN Raise("ZeroDivisionError")
        ELSE Ok(NormalizeScore(WeightedScore(fs, factors, timestamp, cfg),
                               TotalWeight(fs, cfg)))

ScoreSegment(segment, factors, timestamp, segs, cfg) ==
    LET computed == ComputedScore(factors, timestamp, cfg)
    IN  IF ~computed.ok THEN computed
        ELSE LET adj == DetectAnomalies(segment, computed.val, segs, cfg)
             IN  IF ~adj.ok THEN adj
                 ELSE Ok([start        |-> segment.start,
                          end          |-> segment.end,
                          segment_id   |-> segment.segment_id,
                          length       |-> segment.length,
                          safety_score |-> adj.val,
                          risk_factors |-> factors,
                          anomalies    |-> <<>>])

CalculateSegmentScores(segs, rf, timestamp, cfg) ==
    LET outs == [i \in DOMAIN segs |->
                    ScoreSegment(segs[i], Get(rf, segs[i].segment_id, <<>>),
                                 timestamp, segs, cfg)]
    IN  IF \E i \in DOMAIN segs : ~outs[i].ok
        THEN Raise(outs[CHOOSE i \in DOMAIN segs :
                            ~outs[i].ok
                            /\ \A j \in 1..(i - 1) : outs[j].ok].err)
        ELSE Ok([i \in DOMAIN segs |-> outs[i].val])

----------------------------------------------------------------------------
(* _optimize_route *)

\* the preference applied to the wrong term
CombinedScoreSwapped(preference, segment) ==
    RAdd(RMul(RSub(One, preference), Get(segment, "safety_score", Half)),
         RMul(preference,
              RSub(One, Get(segment, "normalized_duration", Half))))

\* lines 308-311
CombinedScore(preference, segment) ==
    RAdd(RMul(preference, Get(segment, "safety_score", Half)),
         RMul(RSub(One, preference),
              RSub(One, Get(segment, "normalized_duration", Half))))

\* lines 305-313: every segment gets the key combined_score, in place
OptimizeRoute(segs, preference) ==
    IF segs # <<>> /\ ~IsNumber(preference) THEN Raise("TypeError")
    ELSE Ok([i \in DOMAIN segs |->
                ("combined_score" :> CombinedScore(preference, segs[i]))
                @@ segs[i]])

----------------------------------------------------------------------------
(* _calculate_route_metrics *)

RECURSIVE SumInt(_)
SumInt(s) == IF s = <<>> THEN 0 ELSE Head(s) + SumInt(Tail(s))

Qualifies(segment) ==
    Get(segment, "length", 0) > 0 /\ "safety_score" \in DOMAIN segment

\* the plain mean of the qualifying scores, lengths ignored
AverageSafetyUnweighted(segs) ==
    LET idx == {i \in DOMAIN segs : Qualifies(segs[i])}
        num == SumQ([i \in DOMAIN segs |->
                        IF i \in idx THEN segs[i].safety_score ELSE Zero])
    IN  IF idx # {} THEN RDiv(num, Q(Cardinality(idx), 1)) ELSE Half

\* lines 322-332: np.average(safety_scores, weights=weights), else 0.5
AverageSafety(segs) ==
    LET idx == {i \in DOMAIN segs : Qualifies(segs[i])}
        num == SumQ([i \in DOMAIN segs |->
                        IF i \in idx
                        THEN RMul(segs[i].safety_score,
                                  Q(segs[i].length, 1))
                        ELSE Zero])
        den == SumInt([i \in DOMAIN segs |->
                          IF i \in idx THEN segs[i].length ELSE 0])
    IN  IF idx # {} THEN RDiv(num, Q(den, 1)) ELSE Half

HazardThreshold == Q(3, 10)

CalculateRouteMetrics(segs) ==
    [total_distance_meters  |->
         SumInt([i \in DOMAIN segs |-> Get(segs[i], "length", 0)]),
     total_duration_seconds |->
         SumInt([i \in DOMAIN segs |-> Get(segs[i], "duration", 0)]),
     average_safety_score   |-> AverageSafety(segs),
     segment_count          |-> Len(segs),
     hazardous_segments     |->
         Cardinality({i \in DOMAIN segs :
                         RLt(Get(segs[i], "safety_score", One),
                             HazardThreshold)})]

----------------------------------------------------------------------------
(* Inputs.  The route supplier and the risk data providers are external:   *)
(* the shipped stubs answer the polyline <<start, end>> and one observation*)
(* per factor stamped with the query time.  The model lets them answer any *)
(* polyline of at most MaxCoords coordinates from start to end and any     *)
(* mapping of segment ids to the factor mappings below.                    *)

Polyline(start, end, n) ==
    [i \in 1..n |-> IF i = 1 THEN start
                    ELSE IF i = n THEN end
                    ELSE Coord(2 * (i - 1))]

Observed(score, offset) == [score |-> score, offset |-> offset]

FactorTemplates ==
    {<<>>,
     "crime" :> Observed(Zero, 0),
     "lighting" :> Observed(One, 0),
     "crime" :> Observed(One, 24) @@ "lighting" :> Observed(Zero, -24),
     "crime" :> Observed(Half, 0) @@ "lighting" :> Observed(Half, 0)}

SmallTemplates ==
    {"crime" :> Observed(Zero, 0),
     "crime" :> Observed(Half, 0) @@ "lighting" :> Observed(Half, 0)}

\* one factor mapping as the fetcher hands it over (lines 175-206)
Observations(template, timestamp) ==
    [f \in DOMAIN template |->
        [score        |-> template[f].score,
         last_updated |-> IsoFormat(DateTime(timestamp.hours
                                             + template[f].offset)),
         sources      |-> <<"provider">>]]

RichInputs ==
    [starts    |-> {Coord(0), Coord(2)},
     ends      |-> {Coord(1), Malformed},
     prefs     |-> {Q(-1, 2), Zero, Half, One, Q(3, 2), NoneVal},
     deps      |-> {NoneVal, [str |-> "tomorrow"]},
     nows      |-> {DateTime(24)},
     sizes     |-> 0..MaxCoords,
     fails     |-> {FALSE, TRUE},
     templates |-> FactorTemplates,
     partial   |-> TRUE]

\* the calls of request r when two requests share the engine
SmallInputs(r) ==
    [starts    |-> {Coord(2 * (r - 1))},
     ends      |-> {Coord(1)},
     prefs     |-> {Zero, One},
     deps      |-> {DateTime(24 * r)},
     nows      |-> {DateTime(48)},
     sizes     |-> 2..MaxCoords,
     fails     |-> {FALSE},
     templates |-> SmallTemplates,
     partial   |-> FALSE]

----------------------------------------------------------------------------
(* calculate_safest_route, one action per stage.  A request holds the      *)
(* event loop from the moment an awaited answer arrives until its next     *)
(* await or its return.                                                    *)

Stages == {"base_route", "segment", "fetch", "score", "optimize", "metrics",
           "return"}

\* a try block opened only after segmentation
TryCoversLate(stage) == stage \in Stages \ {"base_route", "segment"}

\* the try block of lines 65-93 spans every stage
TryCovers(stage) == stage \in Stages

ErrorResult(e) ==
    [status  |-> "error",
     message |-> e,
     code    |-> "ROUTE_CALCULATION_ERROR"]

SuccessResult(route, metrics, preference, departure, now) ==
    [status             |-> "success",
     route              |-> route,
     metrics            |-> metrics,
     preference_applied |-> preference,
     departure_time     |-> IsoFormat(departure),
     processed_at       |-> IsoFormat(now)]

Ran(r, stage) == stages' = [stages EXCEPT ![r] = Append(@, stage)]

\* the exception swallowed and the call carried on to its return statement
FailOpen(r, stage, e) ==
    /\ pc' = [pc EXCEPT ![r] = "return"]
    /\ running' = r
    /\ UNCHANGED <<result, escaped>>

\* lines 93-99: the exception handler ends the call
Fail(r, stage, e) ==
    /\ pc' = [pc EXCEPT ![r] = "done"]
    /\ running' = 0
    /\ IF TryCovers(stage)
       THEN /\ result' = [result EXCEPT ![r] = ErrorResult(e)]
            /\ UNCHANGED escaped
       ELSE /\ escaped' = [escaped EXCEPT ![r] = [raised |-> e]]
            /\ UNCHANGED result

\* lines 42-67: the call, up to the await of _get_base_route
Call(r, I) ==
    /\ running = 0
    /\ pc[r] = "idle"
    /\ \E s \in I.starts, e \in I.ends, p \in I.prefs, d \in I.deps,
          now \in I.nows :
          /\ args' = [args EXCEPT ![r] =
                         [start |-> s, end |-> e, preference |-> p,
                          departure_time |-> d, avoid_areas |-> NoneVal]]
          /\ departure_time' = [departure_time EXCEPT ![r] =
                                   IF d = NoneVal THEN now ELSE d]
    /\ pc' = [pc EXCEPT ![r] = "base_route"]
    /\ UNCHANGED <<engine, running, base_route, segments, risk_factors,
                   scored_segments, optimal_route, route_metrics, result,
                   escaped, stages, response>>

\* lines 101-123: the supplier answers, or its call raises, and the request
\* resumes
GetBaseRoute(r, I) ==
    /\ running = 0
    /\ pc[r] = "base_route"
    /\ Ran(r, "base_route")
    /\ \E failed \in I.fails :
          IF failed
          THEN /\ Fail(r, "base_route", "ProviderError")
               /\ UNCHANGED base_route
          ELSE /\ \E n \in I.sizes :
                     base_route' = [base_route EXCEPT ![r] =
                         [start     |-> args[r].start,
                          end       |-> args[r].end,
                          waypoints |-> <<>>,
                          distance  |-> 0,
                          duration  |-> 0,
                          geometry  |->
                              [type |-> "LineString",
                               coordinates |-> Polyline(args[r].start,
                                                        args[r].end, n)]]]
               /\ pc' = [pc EXCEPT ![r] = "segment"]
               /\ running' = r
               /\ UNCHANGED <<result, escaped>>
    /\ UNCHANGED <<engine, args, departure_time, segments, risk_factors,
                   scored_segments, optimal_route, route_metrics, response>>

\* line 70, then the await of _fetch_risk_factors
Segment(r) ==
    /\ running = r
    /\ pc[r] = "segment"
    /\ Ran(r, "segment")
    /\ LET out == SegmentRoute(base_route[r])
       IN  IF out.ok
           THEN /\ segments' = [segments EXCEPT ![r] = out.val]
                /\ pc' = [pc EXCEPT ![r] = "fetch"]
                /\ running' = 0
                /\ UNCHANGED <<result, escaped>>
           ELSE /\ Fail(r, "segment", out.err)
                /\ UNCHANGED segments
    /\ UNCHANGED <<engine, args, departure_time, base_route, risk_factors,
                   scored_segments, optimal_route, route_metrics, response>>

\* the mappings a fetch may hand over for the given segments
FetchAnswers(segs, timestamp, I) ==
    LET ids == {segs[i].segment_id : i \in DOMAIN segs}
        doms == IF I.partial THEN SUBSET ids ELSE {ids}
    IN  IF ids = {} THEN {<<>>}
        ELSE UNION {[D -> {Observations(t, timestamp) : t \in I.templates}] :
                       D \in doms}

\* lines 154-208: the providers answer and the request resumes
FetchRiskFactors(r, I) ==
    /\ running = 0
    /\ pc[r] = "fetch"
    /\ Ran(r, "fetch")
    /\ IF segments[r] # <<>> /\ ~IsDatetime(departure_time[r])
       THEN /\ Fail(r, "fetch", "AttributeError")
            /\ UNCHANGED risk_factors
       ELSE /\ \E rf \in FetchAnswers(segments[r], departure_time[r], I) :
                  risk_factors' = [risk_factors EXCEPT ![r] = rf]
            /\ pc' = [pc EXCEPT ![r] = "score"]
            /\ running' = r
            /\ UNCHANGED <<result, escaped>>
    /\ UNCHANGED <<engine, args, departure_time, base_route, segments,
                   scored_segments, optimal_route, route_metrics, response>>

\* line 76, r scoring with the risk factors and departure time of frame q
ScoreWith(r, q) ==
    /\ running = r
    /\ pc[r] = "score"
    /\ Ran(r, "score")
    /\ LET out == CalculateSegmentScores(segments[r], risk_factors[q],
                                         departure_time[q], config)
       IN  IF out.ok
           THEN /\ scored_segments' = [scored_segments EXCEPT ![r] = out.val]
                /\ pc' = [pc EXCEPT ![r] = "optimize"]
                /\ UNCHANGED <<running, result, escaped>>
           ELSE /\ Fail(r, "score", out.err)
                /\ UNCHANGED scored_segments
    /\ UNCHANGED <<engine, args, departure_time, base_route, segments,
                   risk_factors, optimal_route, route_metrics, response>>

Fetched(q) ==
    \/ pc[q] \in {"score", "optimize", "metrics", "return"}
    \/ pc[q] = "done" /\ Len(stages[q]) > 3

ScoreShared(r) == \E q \in Requests : Fetched(q) /\ ScoreWith(r, q)

\* risk_factors and departure_time are locals of the call (lines 63, 73)
Score(r) == ScoreWith(r, r)

\* line 79; the segments are annotated in place, so scored_segments and
\* optimal_route are one list
Optimize(r) ==
    /\ running = r
    /\ pc[r] = "optimize"
    /\ Ran(r, "optimize")
    /\ LET out == OptimizeRoute(scored_segments[r], args[r].preference)
       IN  IF out.ok
           THEN /\ optimal_route' = [optimal_route EXCEPT ![r] = out.val]
                /\ scored_segments' = [scored_segments EXCEPT ![r] = out.val]
                /\ pc' = [pc EXCEPT ![r] = "metrics"]
                /\ UNCHANGED <<running, result, escaped>>
           ELSE /\ Fail(r, "optimize", out.err)
                /\ UNCHANGED <<optimal_route, scored_segments>>
    /\ UNCHANGED <<engine, args, departure_time, base_route, segments,
                   risk_factors, route_metrics, response>>

\* line 82
Metrics(r) ==
    /\ running = r
    /\ pc[r] = "metrics"
    /\ Ran(r, "metrics")
    /\ route_metrics' = [route_metrics EXCEPT ![r] =
                            CalculateRouteMetrics(optimal_route[r])]
    /\ pc' = [pc EXCEPT ![r] = "return"]
    /\ UNCHANGED <<engine, running, args, departure_time, base_route,
                   segments, risk_factors, scored_segments, optimal_route,
                   result, escaped, response>>

\* lines 84-91
Return(r, I) ==
    /\ running = r
    /\ pc[r] = "return"
    /\ Ran(r, "return")
    /\ IF ~IsDatetime(departure_time[r])
       THEN Fail(r, "return", "AttributeError")
       ELSE /\ \E now \in I.nows :
                  result' = [result EXCEPT ![r] =
                      SuccessResult(optimal_route[r], route_metrics[r],
                                    args[r].preference, departure_time[r],
                                    now)]
            /\ pc' = [pc EXCEPT ![r] = "done"]
            /\ running' = 0
            /\ UNCHANGED escaped
    /\ UNCHANGED <<engine, args, locals, response>>

----------------------------------------------------------------------------
(* Specifications *)

NoRequest ==
    /\ risk_factors_cache = <<>>
    /\ last_updated = DatetimeMin
    /\ running = 0
    /\ pc = [r \in Requests |-> "idle"]
    /\ args = [r \in Requests |-> NoneVal]
    /\ departure_time = [r \in Requests |-> NoneVal]
    /\ base_route = [r \in Requests |-> NoneVal]
    /\ segments = [r \in Requests |-> NoneVal]
    /\ risk_factors = [r \in Requests |-> NoneVal]
    /\ scored_segments = [r \in Requests |-> NoneVal]
    /\ optimal_route = [r \in Requests |-> NoneVal]
    /\ route_metrics = [r \in Requests |-> NoneVal]
    /\ result = [r \in Requests |-> NoneVal]
    /\ escaped = [r \in Requests |-> NoneVal]
    /\ stages = [r \in Requests |-> <<>>]
    /\ response = [r \in Requests |-> NoneVal]

\* one request at a time, any configuration, any answer of the providers
Init == config \in Configs /\ NoRequest

Next ==
    \E r \in {1} :
        \/ Call(r, RichInputs)
        \/ GetBaseRoute(r, RichInputs)
        \/ Segment(r)
        \/ FetchRiskFactors(r, RichInputs)
        \/ Score(r)
        \/ Optimize(r)
        \/ Metrics(r)
        \/ Return(r, RichInputs)

Spec == Init /\ [][Next]_vars

\* two requests on the one engine, interleaved at the awaits
InitConc == config \in {DefaultConfig, StrictConfig} /\ NoRequest

NextConc ==
    \E r \in Requests :
        \/ Call(r, SmallInputs(r))
        \/ GetBaseRoute(r, SmallInputs(r))
        \/ Segment(r)
        \/ FetchRiskFactors(r, SmallInputs(r))
        \/ Score(r)
        \/ Optimize(r)
        \/ Metrics(r)
        \/ Return(r, SmallInputs(r))

SpecConc == InitConc /\ [][NextConc]_vars

\* _optimize_route and _calculate_route_metrics on their own, applied to any
\* sequence of segment dicts: each has a length and may have a safety_score
\* and a normalized_duration
SegmentShapes ==
    LET lengths == {0, MetresPerStep, 2 * MetresPerStep}
        scores == {Zero, One}
        durations == {One}
    IN  {[length |-> l] : l \in lengths}
        \cup {[length |-> l, safety_score |-> x] :
                 l \in lengths, x \in scores}
        \cup {[length |-> l, normalized_duration |-> d] :
                 l \in lengths, d \in durations}
        \cup {[length |-> l, safety_score |-> x, normalized_duration |-> d] :
                 l \in lengths, x \in scores, d \in durations}

SegmentLists == UNION {[1..n -> SegmentShapes] : n \in 0..MaxSegs}

InitParts ==
    /\ config = DefaultConfig
    /\ risk_factors_cache = <<>>
    /\ last_updated = DatetimeMin
    /\ running = 1
    /\ pc = [r \in Requests |-> IF r = 1 THEN "optimize" ELSE "idle"]
    /\ \E p \in {Zero, Half, One} :
          args = [r \in Requests |->
                     IF r = 1
                     THEN [start |-> Coord(0), end |-> Coord(1),
                           preference |-> p, departure_time |-> NoneVal,
                           avoid_areas |-> NoneVal]
                     ELSE NoneVal]
    /\ departure_time = [r \in Requests |->
                            IF r = 1 THEN DateTime(24) ELSE NoneVal]
    /\ base_route = [r \in Requests |-> NoneVal]
    /\ segments = [r \in Requests |-> NoneVal]
    /\ risk_factors = [r \in Requests |-> NoneVal]
    /\ \E l \in SegmentLists :
          scored_segments = [r \in Requests |->
                                IF r = 1 THEN l ELSE NoneVal]
    /\ optimal_route = [r \in Requests |-> NoneVal]
    /\ route_metrics = [r \in Requests |-> NoneVal]
    /\ result = [r \in Requests |-> NoneVal]
    /\ escaped = [r \in Requests |-> NoneVal]
    /\ stages = [r \in Requests |-> <<>>]
    /\ response = [r \in Requests |-> NoneVal]

NextParts == Optimize(1) \/ Metrics(1)

SpecParts == InitParts /\ [][NextParts]_vars

----------------------------------------------------------------------------
(* The endpoint POST /route/safest (backend/app/api/api_v1/api.py) on the  *)
(* module's singleton engine.  A text is the sequence of its pieces.       *)

\* what a validated RouteRequest can carry (api.py lines 13-28, 47-55):
\* coordinates in range, a preference in [0,1], a departure time that is a
\* datetime, the request's or utcnow(); the route supplier may fail
ApiInputs ==
    [starts    |-> {Coord(0)},
     ends      |-> {Coord(1)},
     prefs     |-> {Zero, Half, One},
     deps      |-> {DateTime(24)},
     nows      |-> {DateTime(24)},
     sizes     |-> 0..MaxCoords,
     fails     |-> {FALSE, TRUE},
     templates |-> FactorTemplates,
     partial   |-> FALSE]

HTTP_200_OK == 200

HTTP_400_BAD_REQUEST == 400

HTTP_500_INTERNAL_SERVER_ERROR == 500

HTTPException(status_code, detail) ==
    [status_code |-> status_code, detail |-> detail]

\* str(e) of an HTTPException: "<status_code>: <detail>", or the empty text
\* where the class defines no __str__
StrHTTPException(e) == {<<"400", ": ">> \o e.detail, <<>>}

\* api.py lines 58-73: the responses the handler can give once the call has
\* ended.  The HTTPException of line 59 is raised inside the try of line 46,
\* whose handler catches every Exception
Responses(res, esc) ==
    IF esc # NoneVal
    THEN {HTTPException(HTTP_500_INTERNAL_SERVER_ERROR, <<esc.raised>>)}
    ELSE IF res.status = "error"
         THEN LET e == HTTPException(
                           HTTP_400_BAD_REQUEST,
                           <<Get(res, "message",
                                 "Failed to calculate route")>>)
              IN  {HTTPException(HTTP_500_INTERNAL_SERVER_ERROR, d) :
                      d \in StrHTTPException(e)}
         ELSE {[status_code |-> HTTP_200_OK,
                body |-> [status |-> "success", data |-> res]]}

\* api.py lines 58-73
Respond(r) ==
    /\ running = 0
    /\ pc[r] = "done"
    /\ response[r] = NoneVal
    /\ \E resp \in Responses(result[r], escaped[r]) :
          response' = [response EXCEPT ![r] = resp]
    /\ UNCHANGED <<engine, running, pc, args, locals, result, escaped,
                   stages>>

\* dwgpas = DWGPAS(): the default configuration
InitApi == config = DefaultConfig /\ NoRequest

NextApi ==
    \E r \in {1} :
        \/ Call(r, ApiInputs)
        \/ GetBaseRoute(r, ApiInputs)
        \/ Segment(r)
        \/ FetchRiskFactors(r, ApiInputs)
        \/ Score(r)
        \/ Optimize(r)
        \/ Metrics(r)
        \/ Return(r, ApiInputs)
        \/ Respond(r)

SpecApi == InitApi /\ [][NextApi]_vars

----------------------------------------------------------------------------
(* Properties *)

Succeeded(r) ==
    pc[r] = "done" /\ "status" \in DOMAIN result[r]
    /\ result[r].status = "success"

Failed(r) ==
    pc[r] = "done" /\ "status" \in DOMAIN result[r]
    /\ result[r].status = "error"

\* the request has a scored segment list
Scored(r) == pc[r] \in {"optimize", "metrics", "return"} \/ Succeeded(r)

Coordinates(r) == base_route[r].geometry.coordinates

Segmented(r) ==
    \/ pc[r] \in {"fetch", "score", "optimize", "metrics", "return"}
    \/ pc[r] = "done" /\ Len(stages[r]) > 2

\* the factor mapping fetched for the i-th segment of r
FactorsOf(r, i) == Get(risk_factors[r], SegmentId(i - 1), <<>>)

\* the weighted, decayed scores of the segments of r, as first computed
ComputedScores(r) ==
    [i \in DOMAIN scored_segments[r] |->
        ComputedScore(FactorsOf(r, i), departure_time[r], config).val]

Flagged(scores, i) ==
    Len(scores) >= 2 /\ AbsExceeds(ZScore(scores, i), config.anomaly_threshold)

Dampened(scores, i) ==
    RAdd(Mean(scores), RMul(RSub(scores[i], Mean(scores)), Half))

\* C1: calculate_safest_route never lets an exception reach its caller; a
\* finished call has returned either an error result carrying a code and a
\* message, or a success result carrying route, metrics and the preference
\* that was passed in.
C1_TaggedResult ==
    \A r \in Requests :
        /\ escaped[r] = NoneVal
        /\ pc[r] = "done" =>
              /\ Succeeded(r) \/ Failed(r)
              /\ Failed(r) => {"code", "message"} \subseteq DOMAIN result[r]
              /\ Succeeded(r) =>
                    /\ {"route", "metrics"} \subseteq DOMAIN result[r]
                    /\ result[r].preference_applied = args[r].preference

\* a failure of segmentation (malformed end coordinate) came back as an
\* error result
C1_Witness ==
    \E r \in Requests :
        /\ Failed(r)
        /\ stages[r] = <<"base_route", "segment">>
        /\ args[r].end = Malformed
        /\ result[r].code = "ROUTE_CALCULATION_ERROR"

\* C2: once a route of 2 or more segments is scored, each segment whose
\* computed score has |z| > anomaly_threshold against the route's computed
\* scores ends with safety_score = mean + (original - mean) * 0.5 and
\* carries an anomaly record with the original and adjusted score and the
\* threshold.
C2_AnomalyDampened ==
    \A r \in Requests :
        Scored(r) /\ Len(scored_segments[r]) >= 2 =>
            LET scores == ComputedScores(r)
            IN  \A i \in DOMAIN scores :
                    Flagged(scores, i) =>
                        /\ scored_segments[r][i].safety_score
                               = Dampened(scores, i)
                        /\ \E a \in Range(scored_segments[r][i].anomalies) :
                              /\ a.original_score = scores[i]
                              /\ a.adjusted_score = Dampened(scores, i)
                              /\ a.threshold = config.anomaly_threshold

PositiveTotalWeight ==
    RLt(Zero, TotalWeight(DOMAIN config.base_weights, config))

InUnit(x) == RLe(Zero, x) /\ RLe(x, One)

\* C3: with positive total weight and raw scores in [0,1], whatever the
\* order of query time and observation time, every scored segment's
\* safety_score lies in [0,1].
C3_ScoreInUnitInterval ==
    \A r \in Requests :
        Scored(r) /\ PositiveTotalWeight =>
            \A i \in DOMAIN scored_segments[r] :
                (\A f \in DOMAIN FactorsOf(r, i) :
                    InUnit(FactorsOf(r, i)[f].score))
                => InUnit(scored_segments[r][i].safety_score)

NoKnownFactor(r, i) ==
    \A f \in DOMAIN FactorsOf(r, i) : f \notin DOMAIN config.base_weights

\* C4: a segment with no known risk factor (empty factor mapping, no factor
\* with a configured weight, or no entry for its id) gets safety_score
\* exactly 0.5, and scoring a route of such segments raises nothing.
C4_NeutralDefault ==
    \A r \in Requests :
        /\ Scored(r) =>
              \A i \in DOMAIN scored_segments[r] :
                  NoKnownFactor(r, i)
                  => scored_segments[r][i].safety_score = Half
        /\ Failed(r) /\ stages[r][Len(stages[r])] = "score" =>
              \E i \in DOMAIN segments[r] : ~NoKnownFactor(r, i)

\* a two-segment route, one segment without an entry in the mapping and one
\* whose only factor has no configured weight, both scored 0.5
C4_Witness ==
    \E r \in Requests :
        /\ Scored(r)
        /\ Len(scored_segments[r]) = 2
        /\ SegmentId(0) \notin DOMAIN risk_factors[r]
        /\ DOMAIN FactorsOf(r, 2) = {"lighting"}
        /\ "lighting" \notin DOMAIN config.base_weights
        /\ \A i \in 1..2 : scored_segments[r][i].safety_score = Half

\* C5: a base route of fewer than 2 coordinates (here between well-formed
\* endpoints) makes segmentation fail: no segment list is produced and the
\* call returns an error result.
C5_ShortRouteRejected ==
    \A r \in Requests :
        Len(stages[r]) > 1
        /\ IsCoordinate(args[r].start) /\ IsCoordinate(args[r].end)
        /\ Len(Coordinates(r)) < 2
        => Failed(r) /\ stages[r] = <<"base_route", "segment">>

WellFormed(r) == \A i \in DOMAIN Coordinates(r) : IsCoordinate(Coordinates(r)[i])

\* C6: the segmenter enforces max_route_segments: a route yielding at most
\* that many segments is segmented into all of them, and a route yielding
\* more fails at segmentation; the list is never truncated.
C6_SegmentLimitEnforced ==
    \A r \in Requests :
        Len(stages[r]) > 1
        /\ Len(Coordinates(r)) >= 2 /\ WellFormed(r)
        => IF Len(Coordinates(r)) - 1 <= config.max_route_segments
           THEN Segmented(r) /\ Len(segments[r]) = Len(Coordinates(r)) - 1
           ELSE Failed(r) /\ stages[r] = <<"base_route", "segment">>

DegenerateWeights ==
    \A f \in DOMAIN config.base_weights : config.base_weights[f] = Zero

\* C7: with an empty or all-zero weight configuration scoring fails: no
\* segment of a segmented route receives a safety score and the call
\* returns an error result.
C7_DegenerateWeightsRejected ==
    \A r \in Requests :
        DegenerateWeights /\ Segmented(r) /\ segments[r] # <<>> =>
            /\ ~Scored(r)
            /\ pc[r] = "done" => Failed(r)

OutOfRange(p) == IsNumber(p) /\ (RLt(p, Zero) \/ RLt(One, p))

\* C8: a preference outside [0,1] is rejected before optimization: no
\* segment gets a combined_score computed from it and the call returns an
\* error result, never a success result.
C8_PreferenceRejected ==
    \A r \in Requests :
        pc[r] # "idle" /\ OutOfRange(args[r].preference) =>
            /\ pc[r] \in {"metrics", "return"} => optimal_route[r] = <<>>
            /\ pc[r] = "done" => Failed(r)

\* C9: a segment's score is changed and an anomaly recorded only if its |z|
\* exceeds the threshold: an unflagged segment keeps its computed score and
\* an empty anomalies list, and a route of 1 segment or of equal scores has
\* no anomaly record at all.
C9_OnlyFlaggedChange ==
    \A r \in Requests :
        Scored(r) =>
            LET scores == ComputedScores(r)
            IN  /\ \A i \in DOMAIN scores :
                       ~Flagged(scores, i) =>
                           /\ scored_segments[r][i].safety_score = scores[i]
                           /\ scored_segments[r][i].anomalies = <<>>
                /\ (Len(scores) = 1 \/ \A i, j \in DOMAIN scores :
                                           scores[i] = scores[j])
                   => \A i \in DOMAIN scores :
                          scored_segments[r][i].anomalies = <<>>

\* a two-segment route with different computed scores, neither flagged
\* under the threshold 2, both left as computed
C9_Witness ==
    \E r \in Requests :
        /\ Scored(r)
        /\ Len(scored_segments[r]) = 2
        /\ config.anomaly_threshold = Q(2, 1)
        /\ ComputedScores(r)[1] # ComputedScores(r)[2]
        /\ \A i \in 1..2 :
              scored_segments[r][i].safety_score = ComputedScores(r)[i]

\* the result of r is made of r's own arguments and of the answers given
\* to r
OwnResult(r) ==
    LET route == result[r].route
    IN  /\ Len(route) = Len(Coordinates(r)) - 1
        /\ route[1].start = args[r].start
        /\ route[Len(route)].end = args[r].end
        /\ \A i \in DOMAIN route :
              /\ route[i].start = Coordinates(r)[i]
              /\ route[i].end = Coordinates(r)[i + 1]
              /\ route[i].risk_factors = FactorsOf(r, i)
              /\ route[i].safety_score
                     = ComputedScore(FactorsOf(r, i), args[r].departure_time,
                                     config).val
              /\ route[i].combined_score
                     = CombinedScore(args[r].preference, route[i])
        /\ result[r].preference_applied = args[r].preference
        /\ result[r].departure_time = IsoFormat(args[r].departure_time)

\* C10: two requests interleaved at the awaits on the one engine do not
\* interfere: each result is made of that request's own start, end, risk
\* factors, departure time and preference, and no step writes the engine's
\* config, risk_factors_cache or last_updated.
C10_NoInterference ==
    /\ [](\A r \in Requests : Succeeded(r) => OwnResult(r))
    /\ [][UNCHANGED engine]_vars

\* request 1 has returned its result while request 2, called with another
\* start, preference and departure time and given other risk factors, is
\* between its fetch and its return
C10_Witness ==
    /\ Succeeded(1)
    /\ pc[2] = "score"
    /\ args[1].start # args[2].start
    /\ args[1].preference # args[2].preference
    /\ args[1].departure_time # args[2].departure_time
    /\ risk_factors[1] # risk_factors[2]
    /\ Len(segments[1]) = Len(segments[2])

Has(segment, key) == key \in DOMAIN segment

\* the segments that count in the average
Counted(segs) ==
    {i \in DOMAIN segs : segs[i].length > 0 /\ Has(segs[i], "safety_score")}

RECURSIVE LengthOver(_, _)
LengthOver(segs, idx) ==
    IF idx = {} THEN 0
    ELSE LET i == CHOOSE j \in idx : TRUE
         IN  segs[i].length + LengthOver(segs, idx \ {i})

RECURSIVE ScoreLengthOver(_, _)
ScoreLengthOver(segs, idx) ==
    IF idx = {} THEN Zero
    ELSE LET i == CHOOSE j \in idx : TRUE
         IN  RAdd(RMul(segs[i].safety_score, Q(segs[i].length, 1)),
                  ScoreLengthOver(segs, idx \ {i}))

\* C11: aggregate gives average_safety_score = (sum of score * length) /
\* (sum of length) over exactly the segments with length > 0 and a
\* safety_score, 0.5 when no segment qualifies, and for an empty sequence
\* total distance, total duration and hazardous_segments are all 0.
C11_LengthWeightedAverage ==
    pc[1] = "return" =>
        LET segs == optimal_route[1]
            m == route_metrics[1]
            idx == Counted(segs)
        IN  /\ idx = {} => m.average_safety_score = Half
            /\ idx # {} =>
                  RMul(m.average_safety_score, Q(LengthOver(segs, idx), 1))
                      = ScoreLengthOver(segs, idx)
            /\ segs = <<>> =>
                  /\ m.total_distance_meters = 0
                  /\ m.total_duration_seconds = 0
                  /\ m.hazardous_segments = 0

\* two scored segments of different length and score: the average is 2/3,
\* not the plain mean 1/2
C11_Witness ==
    /\ pc[1] = "return"
    /\ Len(optimal_route[1]) = 2
    /\ Counted(optimal_route[1]) = {1, 2}
    /\ optimal_route[1][1].length = MetresPerStep
    /\ optimal_route[1][1].safety_score = Zero
    /\ optimal_route[1][2].length = 2 * MetresPerStep
    /\ optimal_route[1][2].safety_score = One
    /\ route_metrics[1].average_safety_score = Q(2, 3)

\* s and t have the same keys and values, key and combined_score aside
DifferOnlyIn(s, t, key) ==
    /\ DOMAIN s \ {key, "combined_score"} = DOMAIN t \ {key, "combined_score"}
    /\ \A k \in DOMAIN s \ {key, "combined_score"} : s[k] = t[k]

\* C12: optimize sets combined_score = preference * safety_score +
\* (1 - preference) * (1 - normalized_duration) on every segment, with 0.5
\* for an absent normalized_duration; with preference 0 segments differing
\* only in safety_score get the same combined_score, with preference 1
\* segments differing only in normalized_duration get the same
\* combined_score, their safety_score.
C12_CombinedScore ==
    pc[1] \in {"metrics", "return"} =>
        LET segs == optimal_route[1]
            p == args[1].preference
            safety(i) == IF Has(segs[i], "safety_score")
                         THEN segs[i].safety_score ELSE Half
            duration(i) == IF Has(segs[i], "normalized_duration")
                           THEN segs[i].normalized_duration ELSE Half
        IN  /\ Len(segs) = Len(scored_segments[1])
            /\ \A i \in DOMAIN segs :
                  /\ Has(segs[i], "combined_score")
                  /\ RSub(segs[i].combined_score, RMul(p, safety(i)))
                         = RMul(RSub(One, p), RSub(One, duration(i)))
                  /\ p = Zero => segs[i].combined_score
                                     = RSub(One, duration(i))
                  /\ p = One => segs[i].combined_score = safety(i)
            /\ \A i, j \in DOMAIN segs :
                  /\ p = Zero /\ DifferOnlyIn(segs[i], segs[j], "safety_score")
                     => segs[i].combined_score = segs[j].combined_score
                  /\ p = One /\ DifferOnlyIn(segs[i], segs[j],
                                             "normalized_duration")
                     => segs[i].combined_score = segs[j].combined_score

\* preference 0, two segments that differ only in safety_score (0 and 1)
\* and have no normalized_duration: both get combined_score 0.5
C12_Witness ==
    /\ pc[1] = "metrics"
    /\ args[1].preference = Zero
    /\ Len(optimal_route[1]) = 2
    /\ DifferOnlyIn(optimal_route[1][1], optimal_route[1][2], "safety_score")
    /\ Has(optimal_route[1][1], "safety_score")
    /\ Has(optimal_route[1][2], "safety_score")
    /\ optimal_route[1][1].safety_score = Zero
    /\ optimal_route[1][2].safety_score = One
    /\ ~Has(optimal_route[1][1], "normalized_duration")
    /\ optimal_route[1][1].combined_score = Half
    /\ optimal_route[1][2].combined_score = Half

\* every factor fetched for every segment of r has score 0.5 and was
\* observed at the query timestamp
NeutralFetch(r) ==
    \A i \in DOMAIN segments[r] :
        /\ SegmentId(i - 1) \in DOMAIN risk_factors[r]
        /\ \A f \in DOMAIN FactorsOf(r, i) :
              /\ FactorsOf(r, i)[f].score = Half
              /\ FactorsOf(r, i)[f].last_updated
                     = IsoFormat(departure_time[r])

\* a two-coordinate base route between distinct well-formed endpoints,
\* asked for with preference 0.5 at a datetime, on an engine whose
\* time_decay_hours is not 0
TwoPointRequest(r) ==
    /\ pc[r] = "done"
    /\ config.time_decay_hours # 0
    /\ IsNumber(args[r].preference) /\ args[r].preference = Half
    /\ IsDatetime(departure_time[r])
    /\ Len(stages[r]) > 1
    /\ Len(Coordinates(r)) = 2
    /\ WellFormed(r)
    /\ Coordinates(r)[1] # Coordinates(r)[2]

\* C13: end to end, a two-coordinate base route with distinct endpoints,
\* preference 0.5 and every risk factor of every segment fetched with score
\* 0.5 at the query timestamp gives a success result with exactly one
\* segment, safety_score 0.5, combined_score 0.5, hazardous_segments 0 and
\* average_safety_score 0.5.
C13_NeutralExample ==
    \A r \in Requests :
        TwoPointRequest(r) =>
            /\ Fetched(r)
            /\ NeutralFetch(r) =>
                  /\ Succeeded(r)
                  /\ Len(result[r].route) = 1
                  /\ result[r].route[1].safety_score = Half
                  /\ result[r].route[1].combined_score = Half
                  /\ result[r].metrics.hazardous_segments = 0
                  /\ result[r].metrics.average_safety_score = Half

\* the default engine, crime and lighting both fetched at 0.5: the call has
\* succeeded with one segment of 111 m
C13_Witness ==
    \E r \in Requests :
        /\ TwoPointRequest(r)
        /\ config = DefaultConfig
        /\ NeutralFetch(r)
        /\ DOMAIN FactorsOf(r, 1) = {"crime", "lighting"}
        /\ Succeeded(r)
        /\ Len(result[r].route) = 1
        /\ result[r].route[1].length = MetresPerStep
        /\ result[r].route[1].safety_score = Half
        /\ result[r].metrics.average_safety_score = Half

Between(x, a, b) == (RLe(a, x) /\ RLe(x, b)) \/ (RLe(b, x) /\ RLe(x, a))

\* C14: the age used for time decay is never negative: a factor observed at
\* the query timestamp or after it is decayed as at age 0, so its decayed
\* score is its raw score, and for an age > 0 the decayed score lies between
\* 0.5 and the raw score.
C14_AgeClamped ==
    \A r \in Requests :
        Scored(r) =>
            \A i \in DOMAIN scored_segments[r] :
                \A f \in PresentFactors(FactorsOf(r, i), config) :
                    LET obs == FactorsOf(r, i)[f]
                        age == departure_time[r].hours
                               - FromIsoFormat(obs.last_updated).hours
                        decayed == FactorScore(obs, departure_time[r],
                                               config).val
                    IN  /\ age <= 0 => decayed = obs.score
                        /\ age > 0 => Between(decayed, Half, obs.score)

StageOrder ==
    <<"base_route", "segment", "fetch", "score", "optimize", "metrics",
      "return">>

IsPrefix(s, t) == Len(s) <= Len(t) /\ \A i \in 1..Len(s) : s[i] = t[i]

\* C15: within one request the stages run in the order base route,
\* segmentation, fetch, score, optimize, aggregate (then the return), each
\* at most once and only by a request that has completed the one before;
\* once a stage has failed no stage runs any more, and the error result has
\* neither route nor metrics.
C15_StagesInOrder ==
    /\ [](\A r \in Requests :
             /\ IsPrefix(stages[r], StageOrder)
             /\ pc[r] \in Stages =>
                   /\ Len(stages[r]) < Len(StageOrder)
                   /\ pc[r] = StageOrder[Len(stages[r]) + 1]
             /\ Succeeded(r) => stages[r] = StageOrder
             /\ Failed(r) =>
                   DOMAIN result[r] \cap {"route", "metrics"} = {})
    /\ [][\A r \in Requests :
             /\ stages'[r] # stages[r] =>
                   /\ pc[r] \in Stages
                   /\ stages'[r] = Append(stages[r], pc[r])
             /\ pc[r] = "done" => stages'[r] = stages[r] /\ pc'[r] = "done"]_vars

\* scoring has failed after base route, segmentation and fetch: the history
\* ends there and the result is the error result
C15_Witness ==
    \E r \in Requests :
        /\ Failed(r)
        /\ stages[r] = <<"base_route", "segment", "fetch", "score">>
        /\ DOMAIN result[r] = {"status", "message", "code"}

Responded(r) == "status_code" \in DOMAIN response[r]

\* C16: in the /route/safest endpoint a result with status 'error' is answered
\* with HTTP status 400 and the result's message as detail; status 500 is
\* answered only when the call itself raised.
C16_ErrorResultIs400 ==
    \A r \in Requests :
        Responded(r) =>
            /\ Failed(r) =>
                  /\ response[r].status_code = HTTP_400_BAD_REQUEST
                  /\ response[r].detail = <<result[r].message>>
            /\ response[r].status_code = HTTP_500_INTERNAL_SERVER_ERROR
               => escaped[r] # NoneVal

====
